---- MODULE Spec2Model ----
(***************************************************************************)
(* A model of morph::Anneal<T> (Adaptive Simulated Annealing, Ingber 1989) *)
(* and of the client loop that drives it: construct, init(), then          *)
(* alternately evaluate the objective the annealer asks for and call       *)
(* step().                                                                 *)
(*                                                                         *)
(* The floating point type T is modelled as signed fixed point with S      *)
(* units per 1.0, overflowing to +-Inf beyond FMax, with a NaN value.       *)
(* Uniform random draws are inputs chosen from small sets of fixed-point   *)
(* values in [0,1).                                                        *)
(***************************************************************************)
EXTENDS Integers, Sequences, FiniteSets, TLC

VARIABLES
    args,      \* the constructor's arguments <<initial_params, param_ranges>>
    an,        \* the Anneal<T> object: every data member, by its name
    objective, \* the client's objective function (a name, see Objective)
    supplied,  \* the client has written the objective value(s) the state asks for
    err,       \* the exception the last call of step() raised, or "none"
    tests_ok   \* every reanneal_test so far saw accepted_vs_generated >= threshold

vars == <<args, an, objective, supplied, err, tests_ok>>

(***************************************************************************)
(* Bounds of the model.                                                    *)
(***************************************************************************)
\* step() is called at most MaxSteps times in a run.
MaxSteps == 4

(***************************************************************************)
(* The number type T.                                                      *)
(***************************************************************************)
\* Fixed-point units per 1.0.
S == 256
\* std::numeric_limits<T>::max(), in units.
FMax == 1048576
FLowest == -FMax
\* Half the spacing of T at FMax, in units.
FHalfUlp == 4096
\* The infinities and the NaN of T.
Inf == 1073741824
NaN == 2000000000
\* std::numeric_limits<T>::epsilon(): the spacing of T at 1.0, one unit.
Epsilon == 1
\* S/e and S*ln(2), used by the exponential and the logarithm.
EInv == 94
Ln2 == 177

Abs(v) == IF v < 0 THEN -v ELSE v
Sgn(v) == IF v < 0 THEN -1 ELSE IF v > 0 THEN 1 ELSE 0
IsNaN(v) == v = NaN
IsInf(v) == v = Inf \/ v = -Inf
IsFinite(v) == ~IsNaN(v) /\ ~IsInf(v)
\* Rounding of a result beyond FMax: within half the spacing of T at FMax it
\* rounds to FMax (so x - lowest() is max() for an ordinary x), further out it
\* overflows to an infinity.
Fin(v) == IF v > FMax + FHalfUlp THEN Inf
          ELSE IF v > FMax THEN FMax
          ELSE IF v < -(FMax + FHalfUlp) THEN -Inf
          ELSE IF v < -FMax THEN -FMax
          ELSE v

NegFP(a) == IF IsNaN(a) THEN NaN ELSE -a

AddFP(a, b) ==
    IF IsNaN(a) \/ IsNaN(b) THEN NaN
    ELSE IF IsInf(a) /\ IsInf(b) THEN (IF a = b THEN a ELSE NaN)
    ELSE IF IsInf(a) THEN a
    ELSE IF IsInf(b) THEN b
    ELSE Fin(a + b)

SubFP(a, b) == AddFP(a, NegFP(b))

MulFP(a, b) ==
    IF IsNaN(a) \/ IsNaN(b) THEN NaN
    ELSE IF IsInf(a) \/ IsInf(b)
         THEN (IF a = 0 \/ b = 0 THEN NaN ELSE Sgn(a) * Sgn(b) * Inf)
    ELSE IF a = 0 \/ b = 0 THEN 0
    ELSE IF Abs(b) > (FMax * S) \div Abs(a) THEN Sgn(a) * Sgn(b) * Inf
    ELSE Fin(Sgn(a) * Sgn(b) * ((Abs(a) * Abs(b) + (S \div 2)) \div S))

DivFP(a, b) ==
    IF IsNaN(a) \/ IsNaN(b) THEN NaN
    ELSE IF IsInf(a) THEN (IF IsInf(b) THEN NaN
                           ELSE IF b < 0 THEN -a ELSE a)
    ELSE IF IsInf(b) THEN 0
    ELSE IF b = 0 THEN (IF a = 0 THEN NaN ELSE Sgn(a) * Inf)
    ELSE Fin(Sgn(a) * Sgn(b) * ((Abs(a) * S + (Abs(b) \div 2)) \div Abs(b)))

\* The comparisons of T: any comparison with a NaN is false.
LtFP(a, b) == ~IsNaN(a) /\ ~IsNaN(b) /\ a < b
GtFP(a, b) == ~IsNaN(a) /\ ~IsNaN(b) /\ a > b
LeFP(a, b) == ~IsNaN(a) /\ ~IsNaN(b) /\ a <= b
GeFP(a, b) == ~IsNaN(a) /\ ~IsNaN(b) /\ a >= b

\* std::exp.  exp(-a) for finite a >= 0 is exp(-floor(a)) * exp(-frac(a)),
\* the second factor by its Taylor polynomial; it underflows to 0.
RECURSIVE ExpNegInt(_)
ExpNegInt(q) == IF q = 0 THEN S ELSE (ExpNegInt(q - 1) * EInv) \div S

ExpNegFrac(r) == S - r + ((r * r) \div (2 * S)) - ((r * r * r) \div (6 * S * S))

ExpNeg(a) == IF a >= 8 * S THEN 0
             ELSE (ExpNegInt(a \div S) * ExpNegFrac(a % S)) \div S

ExpFP(z) ==
    IF IsNaN(z) THEN NaN
    ELSE IF z = Inf THEN Inf
    ELSE IF z = -Inf THEN 0
    ELSE IF z <= 0 THEN ExpNeg(-z)
    ELSE LET d == ExpNeg(z) IN IF d = 0 THEN Inf ELSE Fin((S * S) \div d)

\* std::log.  ln(v) = n ln 2 + ln(mantissa), the mantissa in [1,2) by
\* 2 artanh((v-1)/(v+1)).
LnMant(v) == LET w == ((v - S) * S) \div (v + S)
             IN  2 * (w + ((w * w * w) \div (3 * S * S)))

RECURSIVE LnPos(_)
LnPos(v) == IF v >= 2 * S THEN Ln2 + LnPos(v \div 2)
            ELSE IF v < S THEN LnPos(2 * v) - Ln2
            ELSE LnMant(v)

LogFP(v) ==
    IF IsNaN(v) \/ v < 0 THEN NaN
    ELSE IF v = 0 THEN -Inf
    ELSE IF v = Inf THEN Inf
    ELSE LnPos(v)

\* std::sqrt of a finite v >= 0, by bisection on the integers.
RECURSIVE ISqrtB(_, _, _)
ISqrtB(n, lo, hi) ==
    IF lo >= hi THEN lo
    ELSE LET mid == (lo + hi + 1) \div 2
         IN  IF mid * mid <= n THEN ISqrtB(n, mid, hi) ELSE ISqrtB(n, lo, mid - 1)

SqrtFP(v) ==
    IF IsNaN(v) \/ v < 0 THEN NaN
    ELSE IF v = Inf THEN Inf
    ELSE ISqrtB(v * S, 0, 23170)

\* std::pow(b, e) for b >= 0 and the exponents the model draws: multiples of 1/4
\* in [0,1].  pow(b, 0) is 1 for every b, the infinities and NaN included.
PowFP(b, e) ==
    IF e = 0 THEN S
    ELSE IF e = S THEN b
    ELSE IF 2 * e = S THEN SqrtFP(b)
    ELSE IF 4 * e = S THEN SqrtFP(SqrtFP(b))
    ELSE MulFP(SqrtFP(b), SqrtFP(SqrtFP(b)))

\* std::pow(k, T{1}/D) for an unsigned k and D in {1, 2}.
RootFP(k, d) == IF d = 1 THEN Fin(k * S) ELSE SqrtFP(Fin(k * S))

\* v.pow(D) for one element, D a positive integer.
RECURSIVE PowInt(_, _)
PowInt(v, d) == IF d = 0 THEN S ELSE MulFP(v, PowInt(v, d - 1))

(***************************************************************************)
(* The vector primitive vVector<T>: elementwise arithmetic and reductions. *)
(***************************************************************************)
Idx(v) == 1..Len(v)
Fill(d, val) == [i \in 1..d |-> val]
\* Variant of resize that assigns val to every element, old ones included.
Resize_assign(v, n, val) == [i \in 1..n |-> val]

\* std::vector::resize(n, val): keeps the first n elements, pads with val.
Resize(v, n, val) == [i \in 1..n |-> IF i <= Len(v) THEN v[i] ELSE val]

VAdd(a, b) == [i \in Idx(a) |-> AddFP(a[i], b[i])]
VSub(a, b) == [i \in Idx(a) |-> SubFP(a[i], b[i])]
VMul(a, b) == [i \in Idx(a) |-> MulFP(a[i], b[i])]
VDiv(a, b) == [i \in Idx(a) |-> DivFP(a[i], b[i])]
VNeg(a) == [i \in Idx(a) |-> NegFP(a[i])]
VScale(a, c) == [i \in Idx(a) |-> MulFP(a[i], c)]
VDivS(a, c) == [i \in Idx(a) |-> DivFP(a[i], c)]
SDivV(c, a) == [i \in Idx(a) |-> DivFP(c, a[i])]
VExp(a) == [i \in Idx(a) |-> ExpFP(a[i])]
VLog(a) == [i \in Idx(a) |-> LogFP(a[i])]

RECURSIVE SumTo(_, _)
SumTo(v, n) == IF n = 0 THEN 0 ELSE AddFP(SumTo(v, n - 1), v[n])
\* mean(): the sum over the size; the mean of an empty vector is 0/0.
Mean(v) == IF Len(v) = 0 THEN NaN ELSE DivFP(SumTo(v, Len(v)), Len(v) * S)

RECURSIVE MaxTo(_, _)
MaxTo(v, n) == IF n = 1 THEN v[1]
               ELSE LET r == MaxTo(v, n - 1) IN IF GtFP(v[n], r) THEN v[n] ELSE r
VMax(v) == MaxTo(v, Len(v))

has_zero(v) == \E i \in Idx(v) : v[i] = 0
has_nan_or_inf(v) == \E i \in Idx(v) : ~IsFinite(v[i])
\* v <= w, v >= w, v > scalar: true when every element compares so.
AllLe(v, w) == \A i \in Idx(v) : LeFP(v[i], w[i])
AllGe(v, w) == \A i \in Idx(v) : GeFP(v[i], w[i])
AllGtS(v, c) == \A i \in Idx(v) : GtFP(v[i], c)

(***************************************************************************)
(* Anneal<T>: parameters and their defaults.                               *)
(***************************************************************************)
NeedToInit == "NeedToInit"
NeedToStep == "NeedToStep"
NeedToCompute == "NeedToCompute"
NeedToComputeSet == "NeedToComputeSet"
ReadyToStop == "ReadyToStop"
Unknown == "Unknown"
Anneal_State == {Unknown, NeedToInit, NeedToStep, NeedToCompute, NeedToComputeSet, ReadyToStop}

\* temperature_ratio_scale = 1e-5, held as its reciprocal: -log(1e-5) = log(1e5).
temperature_ratio_scale_inv == 100000
temperature_anneal_scale == 100
\* acc_gen_reanneal_ratio = 0.7, in units.
acc_gen_reanneal_ratio == 179
partials_samples == 2

\* The settings <<downhill, cost_parameter_scale_ratio, f_x_best_repeat_max,
\* reanneal_after_steps>> the client gives the object before init(): descents
\* with every repeat limit and reanneal period, ascents with every cost scale.
CostScales == {S, 1024 * S}
RepeatMaxes == {1, 2}
ReannealAfter == {2, 3}
Settings ==
    {<<TRUE, S, rm, ra>> : rm \in RepeatMaxes, ra \in ReannealAfter}
      \cup {<<FALSE, cs, 2, 2>> : cs \in CostScales}

\* The random source: RandUniform<T> draws from [0,1).  rng_u (acceptance) and
\* vVector::randomize (generation) draw from these values.
AccDraws == {0, S \div 4, S \div 2, S - 1}
GenDraws == {S \div 4, S \div 2, (3 * S) \div 4}

\* The constructor's arguments: two parameters, searched in [1/4, 3/4] and in
\* [1/8, 3/4], both starting at 1/4.
InitialParams == <<S \div 4, S \div 4>>
ParamRanges == << <<S \div 4, (3 * S) \div 4>>, <<S \div 8, (3 * S) \div 4>> >>

\* Constructor arguments the client may pass: the initial parameters with
\* their ranges, with a range list one short or one long, and none at all.
CtorArgs ==
    { <<InitialParams, ParamRanges>>,
      <<InitialParams, SubSeq(ParamRanges, 1, 1)>>,
      <<InitialParams, Append(ParamRanges, <<0, S>>)>>,
      <<SubSeq(InitialParams, 1, 0), SubSeq(ParamRanges, 1, 0)>> }

\* Arguments of equal, non-zero length.  The client goes on to init() only
\* with an object built from such arguments.
WellFormed(a) == Len(a[1]) > 0 /\ Len(a[1]) = Len(a[2])

\* Ranges of which the first has range_min = range_max, at the initial value.
DegenerateRanges == << <<S \div 4, S \div 4>>, <<S \div 8, (3 * S) \div 4>> >>

\* The client's objective functions.
Objectives == {"flat", "bowl"}
Half == S \div 2
Objective(name, p) ==
    IF name = "flat" THEN 3 * S
    ELSE MulFP(8 * S, SumTo([i \in Idx(p) |-> MulFP(p[i] - Half, p[i] - Half)], Len(p)))

(***************************************************************************)
(* Anneal<T>: the constructor and init().                                  *)
(***************************************************************************)
Construct(initial_params, param_ranges) ==
    LET d == Len(initial_params)
        rmin == [i \in 1..d |-> IF i <= Len(param_ranges) THEN param_ranges[i][1] ELSE 0]
        rmax == [i \in 1..d |-> IF i <= Len(param_ranges) THEN param_ranges[i][2] ELSE 0]
    IN  [ downhill |-> TRUE,
          cost_parameter_scale_ratio |-> S,
          f_x_best_repeat_max |-> 10,
          reanneal_after_steps |-> 100,
          x_cand |-> initial_params, f_x_cand |-> 0,
          x |-> initial_params, f_x |-> 0,
          x_best |-> initial_params, f_x_best |-> 0,
          f_x_best_repeats |-> 0,
          x_set |-> <<>>, f_x_set |-> <<>>,
          num_improved |-> 0, num_worse |-> 0,
          num_worse_accepted |-> 0, num_accepted |-> 0,
          steps |-> 0,
          param_hist |-> <<>>, f_param_hist |-> <<>>,
          state |-> NeedToInit,
          D |-> d, k |-> 1, k_r |-> 0, k_f |-> 1,
          temp |-> <<>>, temp_0 |-> <<>>, temp_f |-> <<>>,
          m |-> <<>>, n |-> <<>>, c |-> <<>>, c_cost |-> <<>>,
          temp_cost_0 |-> <<>>, temp_cost |-> <<>>,
          range_min |-> rmin, range_max |-> rmax,
          rdelta |-> VSub(rmax, rmin),
          rmeans |-> VDivS(VAdd(rmax, rmin), 2 * S),
          s |-> <<>>, s_max |-> <<>>, partials |-> <<>> ]

\* Variant of the sentinel with the two directions exchanged.
sentinel_swapped(downhill) == IF downhill THEN FLowest ELSE FMax

\* The value init() gives f_x_best, f_x and f_x_cand: numeric_limits<T>::max()
\* in a descent, numeric_limits<T>::lowest() in an ascent.
sentinel(downhill) == IF downhill THEN FMax ELSE FLowest

init(a) ==
    LET best == sentinel(a.downhill)
        mm == Fill(a.D, LogFP(temperature_ratio_scale_inv * S))
        nn == Fill(a.D, LogFP(temperature_anneal_scale * S))
        t0 == Resize(a.temp_0, a.D, S)
        cc == VMul(mm, VExp(VDivS(VNeg(nn), a.D * S)))
        ccost == VScale(cc, a.cost_parameter_scale_ratio)
    IN  [a EXCEPT
          !.f_x_best = best, !.f_x = best, !.f_x_cand = best,
          !.x = Resize(a.x, a.D, 0),
          !.x_cand = Resize(a.x_cand, a.D, 0),
          !.x_best = Resize(a.x_best, a.D, 0),
          !.temp_0 = t0,
          !.temp = Resize(a.temp, a.D, S),
          !.s = Resize(a.s, a.D, S),
          !.s_max = Resize(a.s_max, a.D, S),
          !.partials = Resize(a.partials, a.D, S),
          !.m = mm, !.n = nn,
          !.temp_f = VMul(t0, VExp(VNeg(mm))),
          !.k_f = ExpFP(Mean(nn)) \div S,
          !.c = cc, !.c_cost = ccost,
          !.temp_cost_0 = ccost, !.temp_cost = ccost,
          !.state = NeedToCompute ]

(***************************************************************************)
(* Anneal<T>: the internal methods of step().                              *)
(***************************************************************************)
\* Variant of y without the sign: every step goes upwards.
GenY_no_sign(u, t) ==
    LET u2 == Abs(2 * u - S)
    IN  MulFP(t, SubFP(PowFP(AddFP(DivFP(S, t), S), u2), S))

\* One element of y for the draw u at temperature t:
\* u2 = |2u - 1|, sigu = signum(u - 0.5), y = sigu * t * ((1/t + 1)^u2 - 1).
GenY(u, t) ==
    LET u2 == Abs(2 * u - S)
        sigu == Sgn(u - Half) * S
    IN  MulFP(MulFP(sigu, t), SubFP(PowFP(AddFP(DivFP(S, t), S), u2), S))

\* The body of one pass of the loop of generate_parameter: x_new for the draws u.
GenXNew(a, x_start, u) == [i \in 1..a.D |-> AddFP(x_start[i], GenY(u[i], a.temp[i]))]

\* Variant of the exit test without the lower bound.
GenOk_no_lower(a, x_start, x_new, force_change) ==
    /\ AllLe(x_new, a.range_max)
    /\ ~(force_change /\ has_zero(VSub(x_new, x_start)))

\* Variant of the exit test that does not look at force_change.
GenOk_no_force(a, x_start, x_new, force_change) ==
    /\ AllLe(x_new, a.range_max) /\ AllGe(x_new, a.range_min)

\* The loop's exit test: x_new within the bounds and, under force_change, no
\* element of x_new - x_start equal to zero.
GenOk(a, x_start, x_new, force_change) ==
    /\ AllLe(x_new, a.range_max) /\ AllGe(x_new, a.range_min)
    /\ ~(force_change /\ has_zero(VSub(x_new, x_start)))

\* generate_parameter: the vectors the loop can return, one for every draw
\* that passes the exit test (a draw that fails it is drawn again).
generate_parameter(a, x_start, force_change) ==
    { xn \in { GenXNew(a, x_start, u) : u \in [1..a.D -> GenDraws] } :
        GenOk(a, x_start, xn, force_change) }

\* Variant of the cooling schedule that lowers temp linearly in k^(1/D).
cooling_schedule_linear(a) ==
    [a EXCEPT
      !.temp = VSub(a.temp_0, VScale(a.c, RootFP(a.k, a.D))),
      !.temp_cost = VMul(a.temp_cost_0,
                         VExp(VScale(VNeg(a.c_cost), RootFP(a.num_accepted, a.D)))) ]

cooling_schedule(a) ==
    [a EXCEPT
      !.temp = VMul(a.temp_0, VExp(VScale(VNeg(a.c), RootFP(a.k, a.D)))),
      !.temp_cost = VMul(a.temp_cost_0,
                         VExp(VScale(VNeg(a.c_cost), RootFP(a.num_accepted, a.D)))) ]

\* Variant of the comparison that takes a candidate equal to f_x for better.
candidate_is_better_or_equal(a) ==
    \/ (a.downhill /\ LeFP(a.f_x_cand, a.f_x))
    \/ (~a.downhill /\ GeFP(a.f_x_cand, a.f_x))

\* Is the candidate better than the current parameters?
candidate_is_better(a) ==
    \/ (a.downhill /\ LtFP(a.f_x_cand, a.f_x))
    \/ (~a.downhill /\ GtFP(a.f_x_cand, a.f_x))

\* Variant of the acceptance probability with the sign of the exponent reversed.
AcceptP_sign_reversed(a) ==
    ExpFP(DivFP(SubFP(a.f_x_cand, a.f_x), AddFP(Epsilon, Mean(a.temp_cost))))

\* The acceptance probability p.
AcceptP(a) ==
    ExpFP(DivFP(NegFP(SubFP(a.f_x_cand, a.f_x)), AddFP(Epsilon, Mean(a.temp_cost))))

accepted(a, u) == GtFP(AcceptP(a), u)

\* Variant of the comparison: every accepted candidate becomes the best.
better_than_best_always(a) == ~IsNaN(a.f_x_cand)

\* The comparison that decides whether the accepted candidate becomes x_best.
better_than_best(a) == LtFP(a.f_x_cand, a.f_x_best)

\* Variant of the update that replaces the best on a tie as well.
update_best_on_tie(a) ==
    LET rep == a.f_x_best_repeats + (IF a.f_x_cand = a.f_x_best /\ ~IsNaN(a.f_x_cand) THEN 1 ELSE 0)
        tie_or_better == better_than_best(a) \/ (a.f_x_cand = a.f_x_best /\ ~IsNaN(a.f_x_cand))
    IN  [a EXCEPT
          !.f_x_best_repeats = IF better_than_best(a) THEN 0 ELSE rep,
          !.x_best = IF tie_or_better THEN a.x_cand ELSE a.x_best,
          !.f_x_best = IF better_than_best(a) THEN a.f_x_cand ELSE a.f_x_best ]

\* Variant of the update that counts consecutive ties only: an accepted
\* candidate that differs from f_x_best sets the repeat count to zero.
update_best_consecutive(a) ==
    [a EXCEPT
      !.f_x_best_repeats = IF a.f_x_cand = a.f_x_best /\ ~IsNaN(a.f_x_cand) /\ ~better_than_best(a)
                           THEN @ + 1 ELSE 0,
      !.x_best = IF better_than_best(a) THEN a.x_cand ELSE a.x_best,
      !.f_x_best = IF better_than_best(a) THEN a.f_x_cand ELSE a.f_x_best ]

\* Variant of the update that counts every accepted candidate that is not
\* better than the best as a repeat.
update_best_count_all(a) ==
    [a EXCEPT
      !.f_x_best_repeats = IF better_than_best(a) THEN 0 ELSE @ + 1,
      !.x_best = IF better_than_best(a) THEN a.x_cand ELSE a.x_best,
      !.f_x_best = IF better_than_best(a) THEN a.f_x_cand ELSE a.f_x_best ]

\* Variant of the update that keeps the repeat count on an improvement.
update_best_keep_repeats(a) ==
    [a EXCEPT
      !.f_x_best_repeats = @ + (IF a.f_x_cand = a.f_x_best /\ ~IsNaN(a.f_x_cand) THEN 1 ELSE 0),
      !.x_best = IF better_than_best(a) THEN a.x_cand ELSE a.x_best,
      !.f_x_best = IF better_than_best(a) THEN a.f_x_cand ELSE a.f_x_best ]

\* The update of f_x_best_repeats, x_best and f_x_best for an accepted candidate.
update_best(a) ==
    LET rep == a.f_x_best_repeats + (IF a.f_x_cand = a.f_x_best /\ ~IsNaN(a.f_x_cand) THEN 1 ELSE 0)
    IN  [a EXCEPT
          !.f_x_best_repeats = IF better_than_best(a) THEN 0 ELSE rep,
          !.x_best = IF better_than_best(a) THEN a.x_cand ELSE a.x_best,
          !.f_x_best = IF better_than_best(a) THEN a.f_x_cand ELSE a.f_x_best ]

\* Variant of acceptance_check that counts every candidate that is not better
\* in num_worse_accepted, accepted or not.
acceptance_check_counts_rejected(a, u) ==
    LET better == candidate_is_better(a)
        acc == accepted(a, u)
        a1 == [a EXCEPT
                !.num_improved = IF better THEN @ + 1 ELSE @,
                !.num_worse = IF better THEN @ ELSE @ + 1,
                !.num_worse_accepted = IF ~better THEN @ + 1 ELSE @ ]
    IN  IF acc
        THEN [update_best([a1 EXCEPT
                 !.x = a.x_cand, !.f_x = a.f_x_cand,
                 !.param_hist = Append(@, a.x_cand),
                 !.f_param_hist = Append(@, a.f_x_cand) ])
              EXCEPT !.num_accepted = @ + 1]
        ELSE a1

\* Variant of acceptance_check that logs an accepted candidate only when it
\* improved on the current parameters.
acceptance_check_log_improved(a, u) ==
    LET better == candidate_is_better(a)
        acc == accepted(a, u)
        a1 == [a EXCEPT
                !.num_improved = IF better THEN @ + 1 ELSE @,
                !.num_worse = IF better THEN @ ELSE @ + 1,
                !.num_worse_accepted = IF ~better /\ acc THEN @ + 1 ELSE @ ]
    IN  IF acc
        THEN [update_best([a1 EXCEPT
                 !.x = a.x_cand, !.f_x = a.f_x_cand,
                 !.param_hist = IF better THEN Append(@, a.x_cand) ELSE @,
                 !.f_param_hist = IF better THEN Append(@, a.f_x_cand) ELSE @ ])
              EXCEPT !.num_accepted = @ + 1]
        ELSE a1

acceptance_check(a, u) ==
    LET better == candidate_is_better(a)
        acc == accepted(a, u)
        a1 == [a EXCEPT
                !.num_improved = IF better THEN @ + 1 ELSE @,
                !.num_worse = IF better THEN @ ELSE @ + 1,
                !.num_worse_accepted = IF ~better /\ acc THEN @ + 1 ELSE @ ]
    IN  IF acc
        THEN [update_best([a1 EXCEPT
                 !.x = a.x_cand, !.f_x = a.f_x_cand,
                 !.param_hist = Append(@, a.x_cand),
                 !.f_param_hist = Append(@, a.f_x_cand) ])
              EXCEPT !.num_accepted = @ + 1]
        ELSE a1

\* Variant of the stop test with a strict comparison.
stop_check_strict(a) == a.f_x_best_repeats > a.f_x_best_repeat_max

stop_check(a) == a.f_x_best_repeats >= a.f_x_best_repeat_max

accepted_vs_generated(a) == DivFP(a.num_accepted * S, (a.num_improved + a.num_worse) * S)

\* Variant of reset_stats that leaves k_r alone.
reset_stats_keep_k_r(a) ==
    [a EXCEPT !.num_improved = 0, !.num_worse = 0, !.num_worse_accepted = 0,
              !.num_accepted = 0]

\* Variant of reset_stats that resets the call count with the statistics.
reset_stats_and_steps(a) ==
    [a EXCEPT !.num_improved = 0, !.num_worse = 0, !.num_worse_accepted = 0,
              !.num_accepted = 0, !.k_r = 0, !.steps = 0]

reset_stats(a) ==
    [a EXCEPT !.num_improved = 0, !.num_worse = 0, !.num_worse_accepted = 0,
              !.num_accepted = 0, !.k_r = 0]

\* Variant of the test that never asks for a reanneal on the first step after one.
not_yet_reanneal_after_reset(a) ==
    \/ a.k_r = 1
    \/ /\ a.k_r < a.reanneal_after_steps
       /\ GeFP(accepted_vs_generated(a), acc_gen_reanneal_ratio)

\* Variant of the test in reanneal_test with "or" for "and".
not_yet_reanneal_either(a) ==
    \/ a.k_r < a.reanneal_after_steps
    \/ GeFP(accepted_vs_generated(a), acc_gen_reanneal_ratio)

\* reanneal_test returns false: it is not yet time to reanneal.
not_yet_reanneal(a) ==
    /\ a.k_r < a.reanneal_after_steps
    /\ GeFP(accepted_vs_generated(a), acc_gen_reanneal_ratio)

\* Variant of the probe generation that starts from the next candidate.
reanneal_sets_from_cand(a) == [1..partials_samples -> generate_parameter(a, a.x_cand, TRUE)]

\* The sets of parameters reanneal_test can place in x_set.
reanneal_sets(a) == [1..partials_samples -> generate_parameter(a, a.x, TRUE)]

\* The average dL/dx that complete_reanneal places in partials.
RECURSIVE PartialsTo(_, _)
PartialsTo(a, i) ==
    IF i = 0 THEN Fill(a.D, 0)
    ELSE VAdd(PartialsTo(a, i - 1),
              SDivV(SubFP(a.f_x_set[i], a.f_x), VSub(a.x_set[i], a.x)))

Partials(a) == VDivS(PartialsTo(a, partials_samples), partials_samples * S)

\* Variant of complete_reanneal without the test of the partials.
reanneal_never_throws(a) == FALSE

\* Variant of the test of the partials that makes a zero fatal as well.
reanneal_throws_on_zero(a) == has_nan_or_inf(Partials(a)) \/ has_zero(Partials(a))

\* complete_reanneal throws std::runtime_error ("NaN or inf in partials").
reanneal_throws(a) == has_nan_or_inf(Partials(a))

\* static_cast<unsigned int> of a T: truncation; undefined for a value that is
\* negative, infinite or NaN, where any unsigned value may result.
UnsignedCast(v) ==
    IF IsFinite(v) /\ v >= 0 THEN {v \div S} ELSE {0, 1, 100}

\* temp_re, and the values k_re can take, for partials without a zero.
TempRe(a, part) ==
    LET ss == VMul(VNeg(a.rdelta), part)
    IN  VMul(a.temp, SDivV(VMax(ss), ss))

KRe(a, temp_re) ==
    UnsignedCast(Mean([i \in 1..a.D |->
        PowInt(DivFP(LogFP(DivFP(a.temp_0[i], temp_re[i])), a.c[i]), a.D)]))

\* The values of k_re complete_reanneal may compute in a (one value, unless
\* the cast is undefined); {k} when k is not recomputed.
reanneal_k(a) ==
    LET part == Partials(a)
    IN  IF has_nan_or_inf(part) \/ has_zero(part) THEN {a.k}
        ELSE IF AllGtS(TempRe(a, part), 0) THEN KRe(a, TempRe(a, part))
        ELSE {a.k}

\* Variant of complete_reanneal that adopts temp_re without the test of its sign.
complete_reanneal_always_adopts(a, k_re) ==
    LET part == Partials(a)
        a1 == [a EXCEPT !.partials = part]
    IN  IF has_zero(part) THEN reset_stats(a1)
        ELSE reset_stats([a1 EXCEPT !.s = VMul(VNeg(a.rdelta), part),
                                    !.k = k_re, !.temp = TempRe(a, part)])

\* Variant of complete_reanneal whose early return for partials with a zero
\* does not reset the statistics.
complete_reanneal_zero_no_reset(a, k_re) ==
    LET part == Partials(a)
        a1 == [a EXCEPT !.partials = part]
    IN  IF has_zero(part) THEN a1
        ELSE LET ss == VMul(VNeg(a.rdelta), part)
                 temp_re == TempRe(a, part)
                 a2 == [a1 EXCEPT !.s = ss]
             IN  IF AllGtS(temp_re, 0)
                 THEN reset_stats([a2 EXCEPT !.k = k_re, !.temp = temp_re])
                 ELSE reset_stats(a2)

\* complete_reanneal, when it does not throw; k_re is the recomputed k.
complete_reanneal(a, k_re) ==
    LET part == Partials(a)
        a1 == [a EXCEPT !.partials = part]
    IN  IF has_zero(part) THEN reset_stats(a1)
        ELSE LET ss == VMul(VNeg(a.rdelta), part)
                 temp_re == TempRe(a, part)
                 a2 == [a1 EXCEPT !.s = ss]
             IN  IF AllGtS(temp_re, 0)
                 THEN reset_stats([a2 EXCEPT !.k = k_re, !.temp = temp_re])
                 ELSE reset_stats(a2)

(***************************************************************************)
(* The state machine: the client constructs the annealer and sets its      *)
(* parameters, calls init(), and then, until ReadyToStop, writes the       *)
(* objective value(s) the state asks for and calls step().                 *)
(***************************************************************************)
\* The end of a call of step() that loops for ever.
NoReturn == "step() does not return"

\* The settings the client gives the constructed object before init().
Configure(a, set) ==
    [a EXCEPT !.downhill = set[1],
              !.cost_parameter_scale_ratio = set[2],
              !.f_x_best_repeat_max = set[3],
              !.reanneal_after_steps = set[4]]

Init ==
    /\ args = <<InitialParams, ParamRanges>>
    /\ \E set \in Settings :
          an = Configure(Construct(args[1], args[2]), set)
    /\ objective \in Objectives
    /\ supplied = FALSE
    /\ err = "none"
    /\ tests_ok = TRUE

\* The client calls init().
DoInit ==
    /\ an.state = NeedToInit
    /\ err = "none" /\ WellFormed(args)
    /\ an' = init(an)
    /\ UNCHANGED <<args, objective, supplied, err, tests_ok>>

\* The client evaluates the objective of the candidate into f_x_cand.
ComputeCand ==
    /\ an.state = NeedToCompute
    /\ ~supplied
    /\ an' = [an EXCEPT !.f_x_cand = Objective(objective, an.x_cand)]
    /\ supplied' = TRUE
    /\ UNCHANGED <<args, objective, err, tests_ok>>

\* The client evaluates the objective of every member of x_set into f_x_set.
ComputeSet ==
    /\ an.state = NeedToComputeSet
    /\ ~supplied
    /\ an' = [an EXCEPT !.f_x_set = [i \in Idx(an.x_set) |-> Objective(objective, an.x_set[i])]]
    /\ supplied' = TRUE
    /\ UNCHANGED <<args, objective, err, tests_ok>>

\* step() from its first statement to the stop check: the object after
\* ++steps and, in NeedToComputeSet, complete_reanneal (k_re its recomputed k).
step_begin(a, k_re) ==
    LET a0 == [a EXCEPT !.steps = @ + 1]
    IN  IF a0.state = NeedToComputeSet
        THEN [complete_reanneal(a0, k_re) EXCEPT !.state = NeedToStep]
        ELSE a0

\* Variant of the stop branch that starts the count of repeats again.
step_stop_rearmed(a) == [a EXCEPT !.state = ReadyToStop, !.f_x_best_repeats = 0]

\* Variant of the stop branch that runs the cooling schedule before it returns.
step_stop_cooled(a) == [cooling_schedule(a) EXCEPT !.state = ReadyToStop]

\* Variant of the fatal path that has left NeedToComputeSet when the
\* exception leaves step().
step_throw_to_step(a) ==
    [a EXCEPT !.steps = @ + 1, !.partials = Partials(a), !.state = NeedToStep]

\* step() when complete_reanneal() throws: steps is incremented and partials
\* holds the estimate that failed the test; the assignment of NeedToStep
\* is not reached.
step_throw(a) == [a EXCEPT !.steps = @ + 1, !.partials = Partials(a)]

\* step() when stop_check() is true: ReadyToStop, and return.
step_stop(a) == [a EXCEPT !.state = ReadyToStop]

\* step() from cooling_schedule to acceptance_check, for the acceptance draw u.
step_body(a, u) == acceptance_check(cooling_schedule(a), u)

\* Variant of the advance that leaves out ++k_r.
step_advance_no_k_r(a, x_next) == [a EXCEPT !.x_cand = x_next, !.k = @ + 1]

\* Variant of the end of the step body without ++k.
step_advance_no_k(a, x_next) == [a EXCEPT !.x_cand = x_next, !.k_r = @ + 1]

\* generate_next() with the candidate x_next it produced, then ++k and ++k_r.
step_advance(a, x_next) == [a EXCEPT !.x_cand = x_next, !.k = @ + 1, !.k_r = @ + 1]

\* The end of step(): reanneal_test() has returned true, having filled x_set
\* with xs, or it has returned false.
step_reanneal(a, xs) ==
    [a EXCEPT !.x_set = xs,
              !.f_x_set = Resize(a.f_x_set, partials_samples, 0),
              !.state = NeedToComputeSet]

\* Variant of the normal end of step() that leaves the state as it is.
step_continue_no_state(a) == a

step_continue(a) == [a EXCEPT !.state = NeedToCompute]

\* The client calls step().
Step ==
    /\ err # NoReturn
    /\ an.state \in {NeedToCompute, NeedToComputeSet, ReadyToStop}
    /\ an.state \in {NeedToCompute, NeedToComputeSet} => supplied
    /\ an.steps < MaxSteps
    /\ UNCHANGED <<args, objective>>
    /\ IF an.state = NeedToComputeSet /\ reanneal_throws(an)
       THEN /\ an' = step_throw(an)
            /\ err' = "NaN or inf in partials"
            /\ UNCHANGED <<supplied, tests_ok>>
       ELSE /\ err' = "none"
            /\ supplied' = FALSE
            /\ \E k_re \in (IF an.state = NeedToComputeSet THEN reanneal_k(an) ELSE {an.k}) :
                 LET a1 == step_begin(an, k_re)
                 IN  IF stop_check(a1)
                     THEN /\ an' = step_stop(a1)
                          /\ UNCHANGED tests_ok
                     ELSE \E u \in AccDraws :
                          LET a2 == step_body(a1, u)
                          IN  \E x_next \in generate_parameter(a2, a2.x, FALSE) :
                              LET a3 == step_advance(a2, x_next)
                              IN  IF not_yet_reanneal(a3)
                                  THEN /\ an' = step_continue(a3)
                                       /\ UNCHANGED tests_ok
                                  ELSE /\ \E xs \in reanneal_sets(a3) : an' = step_reanneal(a3, xs)
                                       /\ tests_ok' = (tests_ok /\ GeFP(accepted_vs_generated(a3),
                                                                        acc_gen_reanneal_ratio))

Next == DoInit \/ ComputeCand \/ ComputeSet \/ Step

Spec == Init /\ [][Next]_vars

(***************************************************************************)
(* The client that breaks the protocol: any constructor arguments, and     *)
(* step() before init().                                                   *)
(***************************************************************************)
\* The ends the constructor can come to.  It writes range_min[i] and
\* range_max[i] for every pair it is given without a check of i against D:
\* with more pairs than parameters the write is past the end of the vectors,
\* which either goes unnoticed or stops the program.
ConstructEnds(initial_params, param_ranges) ==
    IF Len(param_ranges) > Len(initial_params) THEN {"none", "crash"} ELSE {"none"}

InitMisuse ==
    /\ args \in CtorArgs
    /\ err \in ConstructEnds(args[1], args[2])
    /\ \E set \in Settings :
          an = IF err = "none"
               THEN Configure(Construct(args[1], args[2]), set)
               ELSE [Configure(Construct(args[1], args[2]), set) EXCEPT !.state = Unknown]
    /\ objective \in Objectives
    /\ supplied = FALSE
    /\ tests_ok = TRUE

\* The ends of sigu * temp in generate_parameter when temp has not the D
\* elements of sigu: the product of vectors of different sizes raises an error
\* or reads past the end of temp.
SizeMismatchEnds == {"vector size mismatch", "crash"}

\* The client calls step() on an object it has not called init() on.  step()
\* tests nothing: it counts the call, runs the stop check, the cooling
\* schedule and the acceptance check on the vectors init() has not yet sized,
\* and comes to an end in generate_parameter.
StepBeforeInit ==
    /\ an.state = NeedToInit
    /\ err = "none"
    /\ an.D > 0
    /\ an.steps < MaxSteps
    /\ LET a1 == step_begin(an, an.k)
       IN  IF stop_check(a1)
           THEN an' = step_stop(a1) /\ UNCHANGED err
           ELSE /\ \E u \in AccDraws : an' = step_body(a1, u)
                /\ err' \in SizeMismatchEnds
    /\ UNCHANGED <<args, objective, supplied, tests_ok>>

NextMisuse == DoInit \/ ComputeCand \/ ComputeSet \/ Step \/ StepBeforeInit

SpecMisuse == InitMisuse /\ [][NextMisuse]_vars

(***************************************************************************)
(* The client that passes a range with range_min = range_max.              *)
(***************************************************************************)
InitDegenerate ==
    /\ args \in { <<InitialParams, ParamRanges>>, <<InitialParams, DegenerateRanges>> }
    /\ \E set \in Settings :
          an = Configure(Construct(args[1], args[2]), set)
    /\ objective \in Objectives
    /\ supplied = FALSE
    /\ err = "none"
    /\ tests_ok = TRUE

\* A call of step() that does not return: the loop of generate_parameter has
\* no exit test and no draw passes it, in generate_next() or in reanneal_test().
\* The object stays as the statements before the loop left it.
StepHangs ==
    /\ err = "none"
    /\ an.state \in {NeedToCompute, NeedToComputeSet}
    /\ supplied
    /\ an.steps < MaxSteps
    /\ ~(an.state = NeedToComputeSet /\ reanneal_throws(an))
    /\ err' = NoReturn
    /\ UNCHANGED <<args, objective, supplied, tests_ok>>
    /\ \E k_re \in (IF an.state = NeedToComputeSet THEN reanneal_k(an) ELSE {an.k}) :
         LET a1 == step_begin(an, k_re)
         IN  /\ ~stop_check(a1)
             /\ \E u \in AccDraws :
                  LET a2 == step_body(a1, u)
                  IN  \/ /\ generate_parameter(a2, a2.x, FALSE) = {}
                         /\ an' = a2
                      \/ \E x_next \in generate_parameter(a2, a2.x, FALSE) :
                           LET a3 == step_advance(a2, x_next)
                           IN  /\ ~not_yet_reanneal(a3)
                               /\ reanneal_sets(a3) = {}
                               /\ an' = [a3 EXCEPT
                                           !.x_set = Resize(a3.x_set, partials_samples, <<>>),
                                           !.f_x_set = Resize(a3.f_x_set, partials_samples, 0)]

NextDegenerate == DoInit \/ ComputeCand \/ ComputeSet \/ Step \/ StepHangs

SpecDegenerate == InitDegenerate /\ [][NextDegenerate]_vars

(***************************************************************************)
(* Properties.                                                             *)
(***************************************************************************)
\* This transition is a call of step(); one that returned; one that accepted
\* its candidate (the candidate is x_cand with objective f_x_cand before the call).
StepCalled == an'.steps = an.steps + 1
StepReturned == StepCalled /\ err' = "none"
StepAccepted == StepReturned /\ Len(an'.param_hist) = Len(an.param_hist) + 1

InRange(v) == \A i \in Idx(v) : an.range_min[i] <= v[i] /\ v[i] <= an.range_max[i]

\* C1: the constructed object is in NeedToInit, init() takes it to
\* NeedToCompute, and every call of step() leaves the state in NeedToCompute,
\* NeedToComputeSet or ReadyToStop.
C1_StateMachine ==
    /\ an.state = NeedToInit
    /\ [][ /\ (an.state = NeedToInit /\ an' # an) => an'.state = NeedToCompute
           /\ StepCalled => an'.state \in {NeedToCompute, NeedToComputeSet, ReadyToStop} ]_vars

C1_Witness ==
    /\ an.steps >= 2 /\ err = "none"
    /\ an.state = NeedToComputeSet
    /\ an.num_improved + an.num_worse = 1

\* C2: a call of step() that returns ends in ReadyToStop exactly when
\* f_x_best_repeats >= f_x_best_repeat_max at its stop check, and a call made
\* in NeedToCompute with that condition true changes nothing but state and steps.
C2_StopCheck ==
    [][ StepReturned =>
          /\ (an'.state = ReadyToStop) <=> (an.f_x_best_repeats >= an.f_x_best_repeat_max)
          /\ (an.state = NeedToCompute /\ an.f_x_best_repeats >= an.f_x_best_repeat_max)
               => an' = [an EXCEPT !.steps = @ + 1, !.state = ReadyToStop] ]_vars

C2_Witness ==
    /\ an.state = ReadyToStop
    /\ an.x_set = <<>>
    /\ an.f_x_best_repeats = an.f_x_best_repeat_max

\* C3: every component of x, x_best, x_cand and of every member of x_set lies
\* within [range_min, range_max].
C3_Bounds ==
    /\ InRange(an.x) /\ InRange(an.x_best) /\ InRange(an.x_cand)
    /\ \A i \in Idx(an.x_set) : InRange(an.x_set[i])

C3_Witness ==
    /\ Len(an.x_set) = partials_samples
    /\ an.x # InitialParams /\ an.x_cand # an.x /\ an.x_best # an.x
    /\ an.steps = MaxSteps

\* The candidate's objective is strictly better than the best, in the direction
\* of the search.
StrictlyBetter(a) ==
    IF a.downhill THEN a.f_x_cand < a.f_x_best ELSE a.f_x_cand > a.f_x_best

\* C4: across a call of step() f_x_best does not increase in a descent and does
\* not decrease in an ascent, and x_best or f_x_best changes only when the
\* accepted candidate is strictly better than the previous f_x_best.
C4_BestMonotone ==
    [][ StepCalled =>
          /\ an.downhill => an'.f_x_best <= an.f_x_best
          /\ ~an.downhill => an'.f_x_best >= an.f_x_best
          /\ (an'.x_best # an.x_best \/ an'.f_x_best # an.f_x_best)
               => StepAccepted /\ StrictlyBetter(an) ]_vars

C4_Witness ==
    /\ an.downhill
    /\ Len(an.f_param_hist) >= 2
    /\ an.x_best # InitialParams
    /\ an.f_x_best < an.f_param_hist[1]
    /\ an.f_x # an.f_x_best

\* C5: in an ascent, an accepted candidate with f_x_cand > f_x_best becomes
\* the best: x_best = x_cand, f_x_best = f_x_cand, f_x_best_repeats = 0.
C5_AscentBest ==
    [][ (StepAccepted /\ ~an.downhill /\ an.f_x_cand > an.f_x_best)
          => /\ an'.x_best = an.x_cand
             /\ an'.f_x_best = an.f_x_cand
             /\ an'.f_x_best_repeats = 0 ]_vars

\* C6: when a reanneal completes, f_x_best_repeats is 0 right after
\* complete_reanneal, before the stop check and the acceptance check.
C6_RepeatsResetOnReanneal ==
    (an.state = NeedToComputeSet /\ supplied /\ ~reanneal_throws(an))
      => \A k_re \in reanneal_k(an) : step_begin(an, k_re).f_x_best_repeats = 0

\* C7: f_x_best_repeats grows in a call of step() only by 1, and only when the
\* candidate is accepted with f_x_cand equal to f_x_best.
C7_RepeatsIncrement ==
    [][ (StepCalled /\ an'.f_x_best_repeats > an.f_x_best_repeats)
          => /\ StepAccepted
             /\ an.f_x_cand = an.f_x_best
             /\ an'.f_x_best_repeats = an.f_x_best_repeats + 1 ]_vars

C7_Witness ==
    /\ an.f_x_best_repeats = 1
    /\ an.f_x_best_repeat_max = 2
    /\ an.state = NeedToCompute /\ ~supplied
    /\ an.f_x = an.f_x_best

\* C8: in a descent, an accepted candidate with f_x_cand < f_x_best leaves
\* f_x_best_repeats = 0, x_best = x_cand and f_x_best = f_x_cand.
C8_DescentBest ==
    [][ (StepAccepted /\ an.downhill /\ an.f_x_cand < an.f_x_best)
          => /\ an'.f_x_best_repeats = 0
             /\ an'.x_best = an.x_cand
             /\ an'.f_x_best = an.f_x_cand ]_vars

C8_Witness ==
    /\ an.downhill
    /\ Len(an.f_param_hist) = 3
    /\ an.f_param_hist[2] = an.f_param_hist[1]
    /\ an.f_param_hist[3] < an.f_param_hist[2]
    /\ an.x_best = an.param_hist[3] /\ an.f_x_best = an.f_param_hist[3]
    /\ an.f_x_best_repeats = 0

C10_ReannealCadence ==
    (tests_ok /\ err = "none" /\ an.steps >= 1 /\ an.state \in {NeedToCompute, NeedToComputeSet})
      => ((an.state = NeedToComputeSet) <=> (an.steps % an.reanneal_after_steps = 0))

C10_Witness ==
    /\ tests_ok /\ err = "none"
    /\ an.steps = 2 * an.reanneal_after_steps
    /\ an.state = NeedToComputeSet

\* C12: construction from an initial parameter vector and a range list of
\* different lengths, or from no parameters at all, fails: it does not give
\* an object in NeedToInit with no error raised.
C12_ConstructionRejects ==
    ~WellFormed(args) => ~(an.state = NeedToInit /\ err = "none")

\* C13: a call of step() in NeedToInit raises an error, changes nothing of the
\* object (the per-step body does not run) and leaves the state at NeedToInit.
C13_StepBeforeInitRejected ==
    [][ (an.state = NeedToInit /\ ~DoInit)
          => /\ err' # "none"
             /\ an'.state = NeedToInit
             /\ an'.num_improved + an'.num_worse = an.num_improved + an.num_worse
             /\ an'.temp = an.temp /\ an'.temp_cost = an.temp_cost ]_vars

\* C14: the constructed object has x, x_cand and x_best equal to the initial
\* parameters, D their length and range_min, range_max the supplied pairs, and
\* init() leaves x, x_cand and x_best equal to the initial parameters.
C14_InitialParameters ==
    /\ [](an.state = NeedToInit =>
            /\ an.x = args[1] /\ an.x_cand = args[1] /\ an.x_best = args[1]
            /\ an.D = Len(args[1])
            /\ Len(an.range_min) = an.D /\ Len(an.range_max) = an.D
            /\ \A i \in 1..an.D : i <= Len(args[2]) =>
                  an.range_min[i] = args[2][i][1] /\ an.range_max[i] = args[2][i][2])
    /\ [][DoInit => an'.x = args[1] /\ an'.x_cand = args[1] /\ an'.x_best = args[1]]_vars

C14_Witness ==
    /\ an.state = NeedToCompute /\ an.steps = 0 /\ ~supplied
    /\ Len(an.temp) = an.D /\ an.D = 2
    /\ an.x = args[1] /\ an.x # Fill(an.D, 0)

\* C15 as stated: init() sets f_x_best, f_x and f_x_cand to +infinity in a
\* descent and to -infinity in an ascent.
C15_SentinelInfinite ==
    [][DoInit => /\ an'.f_x_best = (IF an.downhill THEN Inf ELSE -Inf)
                 /\ an'.f_x = an'.f_x_best /\ an'.f_x_cand = an'.f_x_best]_vars

\* C15 as amended: init() sets f_x_best, f_x and f_x_cand to the largest
\* finite value of T in a descent and to the lowest finite value in an ascent,
\* so that no value of the objective function, and no finite value at all, is
\* worse than f_x_best in the direction of the search.
C15_SentinelFinite ==
    [][DoInit => /\ an'.f_x_best = (IF an.downhill THEN FMax ELSE FLowest)
                 /\ IsFinite(an'.f_x_best)
                 /\ an'.f_x = an'.f_x_best /\ an'.f_x_cand = an'.f_x_best
                 /\ \A name \in Objectives, p1 \in 0..S, p2 \in 0..S :
                      IF an.downhill
                      THEN Objective(name, <<p1, p2>>) <= an'.f_x_best
                      ELSE Objective(name, <<p1, p2>>) >= an'.f_x_best ]_vars

C15_Witness ==
    /\ an.state = NeedToCompute /\ an.steps = 0 /\ ~supplied
    /\ ~an.downhill
    /\ an.f_x_best = FLowest /\ an.f_x = FLowest /\ an.f_x_cand = FLowest


\* C16: every call of step() adds exactly 1 to steps, whatever its end (a
\* return in any state, ReadyToStop included, a completed reanneal, an
\* error), and no other operation changes steps.
C16_StepsCountsCalls ==
    [][ IF Step \/ StepBeforeInit
        THEN an'.steps = an.steps + 1
        ELSE an'.steps = an.steps ]_vars

\* The third call completed a reanneal and ended in ReadyToStop.
C16_Witness ==
    /\ an.state = ReadyToStop /\ an.steps = 3
    /\ Len(an.x_set) = partials_samples
    /\ an.num_accepted = 0 /\ Len(an.param_hist) = 2

\* C18: a call of step() that completes a reanneal whose partials hold a NaN
\* or an infinity raises the error and does nothing else of the step: but
\* for steps and partials the object is as it was (no cooling, no acceptance
\* check, no new candidate, no change of state).
C18_DegeneratePartialsFatal ==
    [][ (StepCalled /\ an.state = NeedToComputeSet /\ has_nan_or_inf(Partials(an)))
          => /\ err' = "NaN or inf in partials"
             /\ an' = [an EXCEPT !.steps = @ + 1, !.partials = an'.partials] ]_vars

C18_Witness ==
    /\ err = "NaN or inf in partials"
    /\ an.state = NeedToComputeSet
    /\ has_nan_or_inf(an.partials)

\* Both conditions for going on without a reanneal, on the counters as the
\* call leaves them: k_r below reanneal_after_steps and at least 0.7 of the
\* generated candidates accepted.
NoReannealDue(a) ==
    /\ a.k_r < a.reanneal_after_steps
    /\ 10 * a.num_accepted >= 7 * (a.num_improved + a.num_worse)

\* C20: a call of step() that returns without stopping ends in NeedToCompute
\* exactly when k_r < reanneal_after_steps and num_accepted / (num_improved +
\* num_worse) >= acc_gen_reanneal_ratio both hold after the increment of
\* k_r, and in NeedToComputeSet in every other case.
C20_ReannealDecision ==
    [][ (StepReturned /\ an'.state # ReadyToStop)
          => /\ (an'.state = NeedToCompute) <=> NoReannealDue(an')
             /\ ~NoReannealDue(an') => an'.state = NeedToComputeSet ]_vars

\* A reanneal triggered in a descent by the ratio alone: the candidate of the
\* call that completed the previous reanneal was rejected.
C20_Witness ==
    /\ an.state = NeedToComputeSet /\ err = "none"
    /\ an.downhill /\ an.steps >= 3
    /\ an.k_r < an.reanneal_after_steps
    /\ an.num_accepted = 0 /\ an.num_worse = 1

\* The number of candidates this call of step() accepted (0 or 1), read from
\* num_accepted, which complete_reanneal resets at the start of a call made
\* in NeedToComputeSet.
AcceptedInCall ==
    an'.num_accepted - (IF an.state = NeedToComputeSet THEN 0 ELSE an.num_accepted)

IsPrefix(s, t) == Len(s) <= Len(t) /\ \A i \in Idx(s) : t[i] = s[i]

\* C11: param_hist and f_param_hist always have the same length; a call of
\* step() appends to each exactly one entry per candidate it accepts and
\* nothing else (so the length is the number of candidates accepted since
\* construction, reanneals included), and no transition removes or alters
\* an entry.
C11_HistoryAppend ==
    /\ [](Len(an.param_hist) = Len(an.f_param_hist))
    /\ [][ /\ IsPrefix(an.param_hist, an'.param_hist)
           /\ IsPrefix(an.f_param_hist, an'.f_param_hist)
           /\ Len(an'.param_hist) - Len(an.param_hist) \in {0, 1}
           /\ (StepReturned /\ an'.state # ReadyToStop)
                => Len(an'.param_hist) = Len(an.param_hist) + AcceptedInCall
           /\ ~(StepReturned /\ an'.state # ReadyToStop)
                => Len(an'.param_hist) = Len(an.param_hist) ]_vars

\* Three candidates logged, one of them after a reanneal reset the counters.
C11_Witness ==
    /\ Len(an.param_hist) = 3 /\ Len(an.f_param_hist) = 3
    /\ an.num_accepted = 1
    /\ an.param_hist[3] = an.x /\ an.f_param_hist[3] = an.f_x
\* C21: when step() returns NeedToComputeSet, x_set and f_x_set have
\* partials_samples entries each and every member of x_set lies within the
\* bounds and differs from x in every coordinate; when step() returns
\* NeedToCompute, the call has modified neither x_set nor f_x_set.
C21_ProbeSet ==
    [][ StepReturned =>
          /\ an'.state = NeedToComputeSet =>
               /\ Len(an'.x_set) = partials_samples
               /\ Len(an'.f_x_set) = partials_samples
               /\ \A i \in Idx(an'.x_set) :
                    /\ Len(an'.x_set[i]) = an'.D
                    /\ \A j \in 1..an'.D :
                         /\ an'.x_set[i][j] # an'.x[j]
                         /\ an'.range_min[j] <= an'.x_set[i][j]
                         /\ an'.x_set[i][j] <= an'.range_max[j]
          /\ an'.state = NeedToCompute =>
               an'.x_set = an.x_set /\ an'.f_x_set = an.f_x_set ]_vars

C21_Witness ==
    /\ an.state = NeedToCompute /\ err = "none"
    /\ Len(an.x_set) = partials_samples
    /\ \A i \in Idx(an.x_set) : an.f_x_set[i] = Objective(objective, an.x_set[i])
    /\ an.k_r = 1

\* The statistics reset_stats() sets to zero are all zero in a.
StatsZero(a) ==
    /\ a.num_improved = 0 /\ a.num_worse = 0 /\ a.num_worse_accepted = 0
    /\ a.num_accepted = 0 /\ a.k_r = 0

\* C22: a reanneal completion that does not throw leaves num_improved,
\* num_worse, num_worse_accepted, num_accepted and k_r at 0 on each of its
\* paths, before the stop check and the acceptance check of that call of
\* step(): a call that stops returns them at 0, and a call that goes on
\* returns the counts of its one candidate alone.
C22_StatsReset ==
    /\ [](an.state = NeedToComputeSet /\ supplied /\ ~has_nan_or_inf(Partials(an))
            => \A k_re \in reanneal_k(an) : StatsZero(step_begin(an, k_re)))
    /\ [][ (StepReturned /\ an.state = NeedToComputeSet) =>
             IF an'.state = ReadyToStop
             THEN StatsZero(an')
             ELSE /\ an'.k_r = 1
                  /\ an'.num_improved + an'.num_worse = 1
                  /\ an'.num_accepted <= 1
                  /\ an'.num_worse_accepted <= an'.num_worse
                  /\ an'.num_worse_accepted <= an'.num_accepted ]_vars

C22_Witness ==
    /\ err = "none" /\ an.steps >= 3
    /\ has_zero(an.partials)
    /\ an.k_r = 1 /\ an.num_improved + an.num_worse = 1
    /\ an.state \in {NeedToCompute, NeedToComputeSet}

\* C23: a call of step() in NeedToComputeSet whose averaged partials are finite
\* with a component equal to zero raises no error; complete_reanneal leaves k
\* and temp as they were and resets the statistics, and the call goes on as a
\* normal step: it stops if the stop check says so, and otherwise runs the
\* cooling schedule at the unchanged k, tests one candidate and increments k.
C23_ZeroPartialsRecoverable ==
    [][ ( /\ StepCalled /\ an.state = NeedToComputeSet
          /\ ~has_nan_or_inf(Partials(an)) /\ has_zero(Partials(an)) ) =>
          /\ err' = "none"
          /\ an'.partials = Partials(an)
          /\ \A k_re \in reanneal_k(an) :
                LET a1 == step_begin(an, k_re)
                IN  a1.k = an.k /\ a1.temp = an.temp /\ StatsZero(a1)
          /\ IF an.f_x_best_repeats >= an.f_x_best_repeat_max
             THEN /\ an'.state = ReadyToStop
                  /\ an'.k = an.k /\ an'.temp = an.temp /\ StatsZero(an')
             ELSE /\ an'.state \in {NeedToCompute, NeedToComputeSet}
                  /\ an'.k = an.k + 1
                  /\ an'.temp = cooling_schedule(an).temp
                  /\ an'.k_r = 1 /\ an'.num_improved + an'.num_worse = 1 ]_vars

C23_Witness ==
    /\ err = "none" /\ an.steps >= 3 /\ objective = "flat"
    /\ \A i \in Idx(an.partials) : an.partials[i] = 0
    /\ an.state = NeedToCompute /\ an.k_r = 1 /\ an.num_accepted = 1

\* Every component of v is greater than zero.
AllPositive(v) == \A i \in Idx(v) : GtFP(v[i], 0)

\* C24: at a reanneal completion with finite partials without a zero, k and
\* temp become the recomputed k_re and temp_re if every component of temp_re is
\* greater than zero, and keep their values if a component of temp_re is not.
C24_AdoptOnlyPositive ==
    [][ ( /\ StepCalled /\ an.state = NeedToComputeSet
          /\ ~has_nan_or_inf(Partials(an)) /\ ~has_zero(Partials(an)) ) =>
          LET temp_re == TempRe(an, Partials(an))
          IN  /\ err' = "none"
              /\ \A k_re \in reanneal_k(an) :
                    LET a1 == step_begin(an, k_re)
                    IN  IF AllPositive(temp_re)
                        THEN a1.k \in KRe(an, temp_re) /\ a1.temp = temp_re
                        ELSE a1.k = an.k /\ a1.temp = an.temp
              /\ IF an'.state = ReadyToStop
                 THEN IF AllPositive(temp_re)
                      THEN an'.k \in KRe(an, temp_re) /\ an'.temp = temp_re
                      ELSE an'.k = an.k /\ an'.temp = an.temp
                 ELSE IF AllPositive(temp_re)
                      THEN an'.k - 1 \in KRe(an, temp_re)
                      ELSE an'.k = an.k + 1 ]_vars

C24_Witness ==
    /\ err = "none" /\ an.steps >= 3 /\ an.k_r = 1
    /\ ~has_zero(an.partials)
    /\ \E i, j \in Idx(an.s) : an.s[i] > 0 /\ an.s[j] < 0
    /\ an.k = an.steps + 1

\* This call of step() ran the acceptance check and rejected its candidate.
StepRejected ==
    /\ StepReturned /\ an'.state # ReadyToStop
    /\ Len(an'.param_hist) = Len(an.param_hist)

\* C25: a call of step() that rejects its candidate leaves x, f_x, x_best,
\* f_x_best, f_x_best_repeats, param_hist and f_param_hist as they were, and
\* its acceptance check changes the counters only by adding 1 to exactly one
\* of num_improved and num_worse: num_accepted and num_worse_accepted keep the
\* values they had before the check.
C25_RejectedFrame ==
    [][ StepRejected =>
          /\ an'.x = an.x /\ an'.f_x = an.f_x
          /\ an'.x_best = an.x_best /\ an'.f_x_best = an.f_x_best
          /\ an'.f_x_best_repeats = an.f_x_best_repeats
          /\ an'.param_hist = an.param_hist /\ an'.f_param_hist = an.f_param_hist
          /\ \E k_re \in (IF an.state = NeedToComputeSet THEN reanneal_k(an) ELSE {an.k}) :
               LET a1 == cooling_schedule(step_begin(an, k_re))
               IN  /\ an'.num_accepted = a1.num_accepted
                   /\ an'.num_worse_accepted = a1.num_worse_accepted
                   /\ \/ /\ an'.num_improved = a1.num_improved + 1
                         /\ an'.num_worse = a1.num_worse
                      \/ /\ an'.num_improved = a1.num_improved
                         /\ an'.num_worse = a1.num_worse + 1
                   /\ \A u \in AccDraws :
                        ~accepted(a1, u) =>
                          \/ acceptance_check(a1, u) = [a1 EXCEPT !.num_improved = @ + 1]
                          \/ acceptance_check(a1, u) = [a1 EXCEPT !.num_worse = @ + 1] ]_vars

C25_Witness ==
    /\ err = "none" /\ an.steps >= 2
    /\ Len(an.param_hist) >= 1
    /\ an.num_accepted = 0 /\ an.num_worse = 1 /\ an.num_improved = 0
    /\ an.num_worse_accepted = 0
    /\ an.x = an.param_hist[Len(an.param_hist)]

\* C26: in a descent, a call of step() that tests a candidate whose objective
\* f_x_cand is strictly less than f_x accepts it whatever the draw u: after the
\* call x and f_x are the candidate and its objective, num_improved and
\* num_accepted have each grown by 1 (from 0 after a reanneal completion) and
\* num_worse_accepted has not grown.
C26_DescentAlwaysAccepts ==
    [][ ( /\ StepReturned /\ an'.state # ReadyToStop
          /\ an.downhill /\ LtFP(an.f_x_cand, an.f_x) ) =>
          LET reset == an.state = NeedToComputeSet
          IN  /\ an'.x = an.x_cand /\ an'.f_x = an.f_x_cand
              /\ an'.num_improved = (IF reset THEN 0 ELSE an.num_improved) + 1
              /\ an'.num_accepted = (IF reset THEN 0 ELSE an.num_accepted) + 1
              /\ an'.num_worse_accepted = (IF reset THEN 0 ELSE an.num_worse_accepted)
              /\ an'.num_worse = (IF reset THEN 0 ELSE an.num_worse)
              /\ \A k_re \in (IF reset THEN reanneal_k(an) ELSE {an.k}) :
                   \A u \in AccDraws :
                      accepted(cooling_schedule(step_begin(an, k_re)), u) ]_vars

C26_Witness ==
    /\ err = "none" /\ an.downhill
    /\ Len(an.f_param_hist) >= 2
    /\ an.f_param_hist[2] < an.f_param_hist[1]
    /\ an.f_x = an.f_param_hist[2] /\ an.x = an.param_hist[2]
    /\ an.num_improved = 2 /\ an.num_accepted = 2 /\ an.num_worse_accepted = 0

\* C27: a call of step() that tests a candidate whose objective equals f_x
\* counts it in num_worse, not in num_improved, and accepts it whatever the
\* draw u: num_worse_accepted and num_accepted each grow by 1 (from 0 after a
\* reanneal completion) and the candidate and its objective are appended to
\* param_hist and f_param_hist.
C27_TieAccepted ==
    [][ ( /\ StepReturned /\ an'.state # ReadyToStop
          /\ an.f_x_cand = an.f_x ) =>
          LET reset == an.state = NeedToComputeSet
          IN  /\ an'.num_worse = (IF reset THEN 0 ELSE an.num_worse) + 1
              /\ an'.num_improved = (IF reset THEN 0 ELSE an.num_improved)
              /\ an'.num_worse_accepted = (IF reset THEN 0 ELSE an.num_worse_accepted) + 1
              /\ an'.num_accepted = (IF reset THEN 0 ELSE an.num_accepted) + 1
              /\ an'.param_hist = Append(an.param_hist, an.x_cand)
              /\ an'.f_param_hist = Append(an.f_param_hist, an.f_x_cand)
              /\ an'.x = an.x_cand /\ an'.f_x = an.f_x_cand
              /\ \A k_re \in (IF reset THEN reanneal_k(an) ELSE {an.k}) :
                   LET a1 == cooling_schedule(step_begin(an, k_re))
                   IN  AcceptP(a1) = S /\ \A u \in AccDraws : accepted(a1, u) ]_vars

C27_Witness ==
    /\ err = "none" /\ objective = "flat"
    /\ Len(an.f_param_hist) >= 2
    /\ an.f_param_hist[2] = an.f_param_hist[1]
    /\ an.param_hist[2] # an.param_hist[1]
    /\ an.num_improved = 1 /\ an.num_worse = 1
    /\ an.num_worse_accepted = 1 /\ an.num_accepted = 2

\* C28: k starts at 1 and k_r at 0.  A call of step() that returns in another
\* state than ReadyToStop leaves k and k_r one greater than they were at its
\* stop check; a call that returns ReadyToStop leaves them as they were at its
\* stop check.  Before the stop check only the reanneal completion of a call
\* made in NeedToComputeSet changes them (k to the recomputed or kept k, k_r
\* to 0), and nothing but step() changes them at all.
C28_StepIndex ==
    /\ [](an.steps = 0 => an.k = 1 /\ an.k_r = 0)
    /\ [][ StepReturned =>
             LET inc == IF an'.state = ReadyToStop THEN 0 ELSE 1
             IN  IF an.state = NeedToComputeSet
                 THEN an'.k - inc \in reanneal_k(an) /\ an'.k_r = inc
                 ELSE an'.k = an.k + inc /\ an'.k_r = an.k_r + inc ]_vars
    /\ [][ ~StepReturned => an'.k = an.k /\ an'.k_r = an.k_r ]_vars

C28_Witness ==
    /\ err = "none" /\ an.state = NeedToCompute
    /\ an.steps >= 3 /\ an.k_r = 1
    /\ an.k # an.steps + 1
    /\ ~has_zero(an.partials)

\* C29: a call of step() made in NeedToComputeSet that does not throw and does
\* not stop is a whole step after the reanneal completion: it returns with
\* k_r = 1 and num_improved + num_worse = 1, with x_cand generated from the x
\* the acceptance check left, and in the state the reanneal test chooses from
\* these statistics: NeedToCompute if 1 < reanneal_after_steps and the one
\* candidate was accepted (ratio 1 >= acc_gen_reanneal_ratio), and
\* NeedToComputeSet again otherwise.
C29_StepAfterReanneal ==
    [][ (StepReturned /\ an.state = NeedToComputeSet /\ an'.state # ReadyToStop) =>
          /\ an'.k_r = 1
          /\ an'.num_improved + an'.num_worse = 1
          /\ an'.num_accepted \in {0, 1}
          /\ an'.partials = Partials(an)
          /\ an'.x \in {an.x, an.x_cand}
          /\ an'.x_cand \in generate_parameter(an', an'.x, FALSE)
          /\ IF 1 < an'.reanneal_after_steps /\ an'.num_accepted = 1
             THEN an'.state = NeedToCompute
             ELSE an'.state = NeedToComputeSet ]_vars

C29_Witness ==
    /\ err = "none" /\ an.state = NeedToComputeSet
    /\ an.steps >= 3 /\ an.k_r = 1
    /\ an.num_improved + an.num_worse = 1 /\ an.num_accepted = 0
    /\ an.partials # Fill(an.D, S)
    /\ an.x_cand # an.x

C31_GenerationGivesUp == err # NoReturn

\* A finer sample of [0,1) than the draws the transitions take, and the draws
\* of it that pass the exit test of generate_parameter in a from x_start.
FineDraws == {(i * S) \div 8 : i \in 2..6}
PassingDraws(a, x_start, force_change) ==
    { u \in [1..a.D -> FineDraws] : GenOk(a, x_start, GenXNew(a, x_start, u), force_change) }

\* The i-th dimension of a alone.  The exit test is a conjunction over the
\* dimensions, so a vector of draws passes it if each of its elements does.
Dimension(a, i) ==
    [a EXCEPT !.D = 1, !.temp = <<a.temp[i]>>,
              !.range_min = <<a.range_min[i]>>, !.range_max = <<a.range_max[i]>>]

\* Every range has range_min < range_max.
RangesProper == \A i \in 1..an.D : an.range_min[i] < an.range_max[i]

C34_ObjectivePairing ==
    /\ Len(an.f_param_hist) = Len(an.param_hist)
    /\ \A i \in Idx(an.param_hist) :
          an.f_param_hist[i] = Objective(objective, an.param_hist[i])
    /\ Len(an.param_hist) > 0 =>
          /\ an.f_x = Objective(objective, an.x)
          /\ an.downhill => an.f_x_best = Objective(objective, an.x_best)

\* C35: the first call of step() after init() accepts its candidate, in a
\* descent and in an ascent: it returns with one entry in the history and with
\* f_x and f_x_best equal to the objective the client supplied.
C35_FirstCandidateAccepted ==
    [][ (StepReturned /\ an.steps = 0 /\ IsFinite(an.f_x_cand)) =>
          /\ an'.param_hist = <<an.x_cand>>
          /\ an'.f_param_hist = <<an.f_x_cand>>
          /\ an'.f_x = an.f_x_cand
          /\ an'.f_x_best = an.f_x_cand ]_vars

\* C36: a call of step() made in ReadyToStop returns in ReadyToStop and
\* changes nothing of the object but steps, which it increments.
C36_ReadyToStopAbsorbing ==
    [][ (StepCalled /\ an.state = ReadyToStop) =>
          /\ an' = [an EXCEPT !.steps = @ + 1]
          /\ an'.state = ReadyToStop
          /\ err' = err ]_vars

C36_Witness ==
    /\ an.state = ReadyToStop /\ err = "none"
    /\ an.x_set = <<>>
    /\ an.steps > an.k
    /\ an.f_x_best_repeats >= an.f_x_best_repeat_max

\* C37: in a descent, when the history is not empty, f_x_best is the least
\* value of f_param_hist and x_best is the first entry of param_hist that
\* has this value; a reanneal does not change this.
C37_BestIsFirstMinimum ==
    (an.downhill /\ an.state # NeedToInit /\ an.f_param_hist # <<>>) =>
        /\ Len(an.param_hist) = Len(an.f_param_hist)
        /\ \A i \in 1..Len(an.f_param_hist) : an.f_x_best <= an.f_param_hist[i]
        /\ \E i \in 1..Len(an.f_param_hist) :
              /\ an.f_param_hist[i] = an.f_x_best
              /\ an.param_hist[i] = an.x_best
              /\ \A j \in 1..(i - 1) : an.f_param_hist[j] # an.f_x_best

C37_Witness ==
    /\ an.downhill /\ err = "none"
    /\ \E i \in 1..Len(an.f_param_hist) : \E j \in 1..Len(an.f_param_hist) :
          /\ i < j
          /\ an.f_param_hist[i] = an.f_x_best /\ an.f_param_hist[j] = an.f_x_best
          /\ an.param_hist[i] # an.param_hist[j]
          /\ an.x_best = an.param_hist[i]
    /\ an.x_set # <<>> /\ an.k_r = 0 /\ an.state # NeedToComputeSet

\* C38: while the object waits in NeedToComputeSet, no coordinate of a probe
\* equals that coordinate of x, so that no divisor x_set[i][j] - x[j] of the
\* sensitivity estimate is zero, and anything that happens before the
\* completing call of step() leaves x, f_x and x_set as they are.
C38_DivisorNonZero ==
    [][ an.state = NeedToComputeSet =>
          /\ Len(an.x_set) = partials_samples
          /\ \A i \in 1..partials_samples : \A j \in 1..an.D :
                VSub(an.x_set[i], an.x)[j] # 0
          /\ ~StepCalled =>
                an'.x = an.x /\ an'.f_x = an.f_x /\ an'.x_set = an.x_set ]_vars

C38_Witness ==
    /\ an.state = ReadyToStop /\ err = "none"
    /\ an.x_set # <<>> /\ an.k_r = 0
    /\ an.partials = Partials(an)
    /\ ~has_nan_or_inf(an.partials)
    /\ \E j \in 1..an.D : an.partials[j] # 0

\* C39: whenever step() has returned, k_r = num_improved + num_worse,
\* num_accepted <= num_improved + num_worse and num_worse_accepted <=
\* num_worse; a call that reached reanneal_test returns with num_improved +
\* num_worse >= 1, and accepted_vs_generated() is then within [0, 1].
C39_CounterConsistency ==
    [][ StepReturned =>
          /\ an'.k_r = an'.num_improved + an'.num_worse
          /\ an'.num_accepted <= an'.num_improved + an'.num_worse
          /\ an'.num_worse_accepted <= an'.num_worse
          /\ an'.num_worse_accepted <= an'.num_accepted
          /\ an'.state \in {NeedToCompute, NeedToComputeSet} =>
                /\ an'.num_improved + an'.num_worse >= 1
                /\ accepted_vs_generated(an') >= 0
                /\ accepted_vs_generated(an') <= S ]_vars

C39_Witness ==
    /\ an.state = NeedToComputeSet /\ err = "none" /\ ~supplied
    /\ an.k_r = 2 /\ an.num_improved + an.num_worse = 2
    /\ an.num_accepted = 1
    /\ accepted_vs_generated(an) = S \div 2

\* The object a with f_x_set replaced by values one unit above f_x, for
\* which the estimate of the partials is finite.
WithCorrectedSet(a) == [a EXCEPT !.f_x_set = [i \in 1..partials_samples |-> a.f_x + S]]

\* C40: a call of step() that raises "NaN or inf in partials" was made in
\* NeedToComputeSet and leaves the object there, with steps incremented,
\* partials overwritten and every other member as before the call; a call
\* of step() made after f_x_set has been corrected then completes the
\* reanneal as it would have from the state before the failed call.
C40_ThrowLeavesRetryable ==
    [][ (StepCalled /\ err = "none" /\ err' = "NaN or inf in partials") =>
          /\ an.state = NeedToComputeSet /\ an'.state = NeedToComputeSet
          /\ an'.steps = an.steps + 1
          /\ [an' EXCEPT !.steps = an.steps, !.partials = an.partials] = an
          /\ supplied' = supplied
          /\ ~reanneal_throws(WithCorrectedSet(an'))
          /\ reanneal_k(WithCorrectedSet(an')) = reanneal_k(WithCorrectedSet(an))
          /\ \A k_re \in reanneal_k(WithCorrectedSet(an')) :
                step_begin(WithCorrectedSet(an'), k_re)
                  = [step_begin(WithCorrectedSet(an), k_re) EXCEPT !.steps = @ + 1] ]_vars

C40_Witness ==
    /\ err = "NaN or inf in partials"
    /\ an.state = NeedToComputeSet /\ supplied
    /\ an.steps >= 2
    /\ an.partials = Partials(an)
    /\ \E j \in 1..an.D : IsInf(an.partials[j]) \/ IsNaN(an.partials[j])
    /\ ~reanneal_throws(WithCorrectedSet(an))

====
